---------------------------- MODULE Spec2Model ----------------------------
(***************************************************************************)
(* affine_transform.transform(): the Python wrapper that validates its     *)
(* arguments, folds translation, origin and output_image_origin into one   *)
(* offset vector, inverts the linear transformation and hands the result   *)
(* to the native sampling routine (_affine_transform.transform_linear or   *)
(* transform_cubic), whose workers write the output cell by cell.          *)
(*                                                                         *)
(* Numbers are exact rationals <<n, d>> (d > 0, lowest terms): the model   *)
(* follows the arithmetic of the code without floating point rounding.     *)
(* A vector is a sequence of rationals; an n-d array is a record           *)
(* [shape, dtype, data] whose data maps 0-based index tuples to rationals. *)
(***************************************************************************)
EXTENDS Integers, Sequences, FiniteSets, TLC

(***************************************************************************)
(* Bounds of the model.                                                    *)
(***************************************************************************)
\* images have 1..MaxDim axes
MaxDim == 2
\* every axis of a sampled image holds 1..MaxSize cells
MaxSize == 2
\* the native routine runs 1..MaxThreads workers
MaxThreads == 2

\* an optional value: None, or Some(x) with x = Get(Some(x))
None == << >>
Some(x) == << x >>
Get(o) == o[1]
\* a local name that is not bound yet
Unbound == "unbound"

(***************************************************************************)
(* Exact rational arithmetic.                                              *)
(***************************************************************************)
Abs(i) == IF i < 0 THEN -i ELSE i

RECURSIVE GCD(_, _)
GCD(a, b) == IF b = 0 THEN a ELSE GCD(b, a % b)

\* the rational n/d in lowest terms with a positive denominator (d # 0)
Rat(n, d) ==
    LET g == GCD(Abs(n), Abs(d))
        s == IF d < 0 THEN -1 ELSE 1
    IN  << (s * n) \div g, (s * d) \div g >>

R(i) == << i, 1 >>

RAdd(x, y) == Rat(x[1] * y[2] + y[1] * x[2], x[2] * y[2])
RNeg(x) == << -x[1], x[2] >>
RSub(x, y) == RAdd(x, RNeg(y))
RMul(x, y) == Rat(x[1] * y[1], x[2] * y[2])
RDiv(x, y) == Rat(x[1] * y[2], x[2] * y[1])
\* floor and fractional part of a coordinate
RFloor(x) == x[1] \div x[2]
RFrac(x) == RSub(x, R(RFloor(x)))

(***************************************************************************)
(* Vectors (sequences of rationals).                                       *)
(***************************************************************************)
VNeg(v) == [k \in 1..Len(v) |-> RNeg(v[k])]
VAdd(v, w) == [k \in 1..Len(v) |-> RAdd(v[k], w[k])]
VSub(v, w) == [k \in 1..Len(v) |-> RSub(v[k], w[k])]
VConst(n, x) == [k \in 1..n |-> x]

RECURSIVE Dot(_, _, _)
\* sum over j in 1..n of row[j] * v[j]
Dot(row, v, n) ==
    IF n = 0 THEN R(0) ELSE RAdd(Dot(row, v, n - 1), RMul(row[n], v[n]))

(***************************************************************************)
(* n-d arrays.                                                             *)
(***************************************************************************)
RECURSIVE SeqMax(_)
SeqMax(s) ==
    IF Len(s) = 0 THEN 0
    ELSE LET m == SeqMax(Tail(s)) IN IF Head(s) > m THEN Head(s) ELSE m

\* the 0-based index tuples of an array of the given shape
Indices(shape) ==
    { i \in [1..Len(shape) -> 0..(SeqMax(shape) - 1)] :
        \A k \in 1..Len(shape) : i[k] < shape[k] }

Array(shape, dt, data) == [shape |-> shape, dtype |-> dt, data |-> data]

\* an array holding x in every cell
Full(shape, dt, x) == Array(shape, dt, [i \in Indices(shape) |-> x])

ndim(a) == Len(a.shape)

\* the tuple s without its last n entries
DropLast(s, n) == SubSeq(s, 1, Len(s) - n)


\* a.T: the axes reversed
Reverse(s) == [k \in 1..Len(s) |-> s[Len(s) + 1 - k]]
Transposed(a) ==
    Array(Reverse(a.shape), a.dtype,
          [i \in Indices(Reverse(a.shape)) |-> a.data[Reverse(i)]])

(***************************************************************************)
(* Square matrices as sequences of rows, determinant and inverse: what     *)
(* np.linalg.inv computes for each matrix of a (stack of) matrices.        *)
(***************************************************************************)
\* the matrix at prefix p of a stack whose last two axes have n entries
MatAt(a, p, n) ==
    [i \in 1..n |-> [j \in 1..n |-> a.data[p \o << i - 1, j - 1 >>]]]

Skip(k, r) == IF k < r THEN k ELSE k + 1
Minor(M, r, c) ==
    [i \in 1..(Len(M) - 1) |->
        [j \in 1..(Len(M) - 1) |-> M[Skip(i, r)][Skip(j, c)]]]

Sign(k) == IF k % 2 = 0 THEN R(1) ELSE R(-1)

RECURSIVE Det(_)
RECURSIVE DetExpand(_, _)
\* Laplace expansion along the first row, columns 1..j
DetExpand(M, j) ==
    IF j = 0 THEN R(0)
    ELSE RAdd(DetExpand(M, j - 1),
              RMul(Sign(1 + j), RMul(M[1][j], Det(Minor(M, 1, j)))))
Det(M) == IF Len(M) = 0 THEN R(1) ELSE DetExpand(M, Len(M))

MatInverse(M) ==
    [i \in 1..Len(M) |->
        [j \in 1..Len(M) |->
            RDiv(RMul(Sign(i + j), Det(Minor(M, j, i))), Det(M))]]

\* np.linalg.inv rejects arrays with fewer than two axes, stacks whose
\* matrices are not square, and singular matrices
InvRaises(a) ==
    \/ ndim(a) < 2
    \/ a.shape[ndim(a)] # a.shape[ndim(a) - 1]
    \/ \E p \in Indices(DropLast(a.shape, 2)) :
          Det(MatAt(a, p, a.shape[ndim(a)])) = R(0)

inv(a) ==
    LET n == a.shape[ndim(a)]
        invs == [p \in Indices(DropLast(a.shape, 2)) |-> MatInverse(MatAt(a, p, n))]
    IN  Array(a.shape, "float64",
              [i \in Indices(a.shape) |->
                  invs[DropLast(i, 2)][i[ndim(a) - 1] + 1][i[ndim(a)] + 1]])

\* a @ v for an array a of two or more axes and a vector v; and the
\* broadcast sum of its result with a vector
MatMul(a, v) ==
    Array(DropLast(a.shape, 1), "float64",
          [q \in Indices(DropLast(a.shape, 1)) |->
              Dot([j \in 1..Len(v) |-> a.data[q \o << j - 1 >>]], v, Len(v))])

BroadcastAdd(r, v) ==
    Array(r.shape, r.dtype,
          [q \in Indices(r.shape) |-> RAdd(r.data[q], v[q[Len(q)] + 1])])

\* a one-axis array as a vector
AsVector(r) == [k \in 1..r.shape[1] |-> r.data[<< k - 1 >>]]

(***************************************************************************)
(* The native sampling routines, _affine_transform.transform_linear and    *)
(* transform_cubic.  They are compiled code outside the Python sources;    *)
(* they are modelled from the specification of the core: the coordinate    *)
(* mapper, the boundary sampler and the two kernels.                       *)
(***************************************************************************)
\* CoordinateMapper: s(idx) = invL * idx + offset, with invL handed over
\* as its transpose ("columns")
SampleCoordinate(offset, columns, idx) ==
    [i \in 1..Len(offset) |->
        RAdd(Dot([j \in 1..Len(idx) |-> columns.data[<< j - 1, i - 1 >>]],
                 [j \in 1..Len(idx) |-> R(idx[j])], Len(idx)),
             offset[i])]

InRange(shape, index) ==
    \A k \in 1..Len(shape) : 0 <= index[k] /\ index[k] < shape[k]

\* BoundarySampler
Fetch(img, index, bg) ==
    IF InRange(img.shape, index) THEN img.data[index] ELSE bg

\* weight of the lattice neighbour at floor + o, o in {0, 1}
LinearWeight(o, x) == IF o = 0 THEN RSub(R(1), x) ELSE x

Cube(x) == RMul(x, RMul(x, x))
Square(x) == RMul(x, x)
Half == Rat(1, 2)

\* Catmull-Rom weight of the tap at floor + o, o in {-1, 0, 1, 2}
CubicWeight(o, x) ==
    CASE o = -1 -> RAdd(RAdd(RMul(RNeg(Half), Cube(x)), Square(x)),
                        RMul(RNeg(Half), x))
      [] o = 0  -> RAdd(RSub(RMul(Rat(3, 2), Cube(x)),
                             RMul(Rat(5, 2), Square(x))), R(1))
      [] o = 1  -> RAdd(RAdd(RMul(Rat(-3, 2), Cube(x)), RMul(R(2), Square(x))),
                        RMul(Half, x))
      [] o = 2  -> RSub(RMul(Half, Cube(x)), RMul(Half, Square(x)))

RECURSIVE CornerSum(_, _, _, _, _)
\* sum over the corners of the unit cell at floors fl, the axes before
\* Len(index) + 1 already fixed to index; wt[k][o + 1] weighs floor + o
CornerSum(img, bg, fl, wt, index) ==
    IF Len(index) = Len(fl) THEN Fetch(img, index, bg)
    ELSE LET k == Len(index) + 1
         IN  RAdd(RMul(wt[k][1],
                       CornerSum(img, bg, fl, wt, Append(index, fl[k]))),
                  RMul(wt[k][2],
                       CornerSum(img, bg, fl, wt, Append(index, fl[k] + 1))))

\* the only element of a one-element set
The(S) == CHOOSE x \in S : TRUE

\* multilinear interpolation of img at the coordinate s: the floors and
\* the weights are computed once per axis
LinearKernel(img, bg, s) ==
    The({ CornerSum(img, bg, fl, wt, << >>) :
            fl \in { [k \in 1..Len(s) |-> RFloor(s[k])] },
            wt \in { [k \in 1..Len(s) |->
                        [o \in 1..2 |-> LinearWeight(o - 1, RFrac(s[k]))]] } })

RECURSIVE TapSum(_, _, _, _, _)
\* sum over the 4 taps per axis around floors fl, each tap fetched on its
\* own; wt[k][o + 2] weighs floor + o
TapSum(img, bg, fl, wt, index) ==
    IF Len(index) = Len(fl) THEN Fetch(img, index, bg)
    ELSE LET k == Len(index) + 1
             tap(o) == RMul(wt[k][o + 2],
                            TapSum(img, bg, fl, wt, Append(index, fl[k] + o)))
         IN  RAdd(RAdd(tap(-1), tap(0)), RAdd(tap(1), tap(2)))

\* separable Catmull-Rom interpolation of img at the coordinate s: the
\* floors and the weights are computed once per axis
CubicKernel(img, bg, s) ==
    The({ TapSum(img, bg, fl, wt, << >>) :
            fl \in { [k \in 1..Len(s) |-> RFloor(s[k])] },
            wt \in { [k \in 1..Len(s) |->
                        [o \in 1..4 |-> CubicWeight(o - 2, RFrac(s[k]))]] } })

\* Executor: every cell of the output is written with the kernel's value
\* at its sampled coordinate
transform_linear(offset, columns, img, out, bg) ==
    [out EXCEPT !.data =
        [idx \in Indices(out.shape) |->
            The({ LinearKernel(img, bg, s) :
                    s \in { SampleCoordinate(offset, columns, idx) } })]]

transform_cubic(offset, columns, img, out, bg) ==
    [out EXCEPT !.data =
        [idx \in Indices(out.shape) |->
            The({ CubicKernel(img, bg, s) :
                    s \in { SampleCoordinate(offset, columns, idx) } })]]

\* the value one worker computes for the output cell idx
Sample(routine, offset, columns, img, bg, idx) ==
    The({ IF routine = "transform_linear"
          THEN LinearKernel(img, bg, s) ELSE CubicKernel(img, bg, s) :
            s \in { SampleCoordinate(offset, columns, idx) } })

RECURSIVE Product(_)
Product(shape) ==
    IF Len(shape) = 0 THEN 1 ELSE Head(shape) * Product(Tail(shape))

\* Executor: the outermost axis is sliced into n near-equal ranges, worker
\* w of 1..n takes the rows BlockFirst..BlockFirst + BlockRows - 1
BlockFirst(shape, n, w) == ((w - 1) * shape[1]) \div n
BlockRows(shape, n, w) == (w * shape[1]) \div n - BlockFirst(shape, n, w)
\* the number of cells of the block of worker w
BlockCells(shape, n, w) == BlockRows(shape, n, w) * Product(Tail(shape))

RECURSIVE RowMajor(_, _, _)
\* the row-major position of index i, counting axes 1..k
RowMajor(i, shape, k) ==
    IF k = 0 THEN 0 ELSE RowMajor(i, shape, k - 1) * shape[k] + i[k]

\* the k-th cell (k = 0, 1, ...) of the block of worker w, in row-major order
BlockCell(shape, n, w, k) ==
    CHOOSE i \in Indices(shape) :
        RowMajor(i, shape, Len(shape))
            = BlockFirst(shape, n, w) * Product(Tail(shape)) + k

\* The core assumes a square matrix of side d and an offset of length d and
\* fails before writing when handed anything else; which exception the
\* binding raises then is not specified, so it is any of these.
NativeRejections == {"ValueError", "TypeError", "RuntimeError"}

(***************************************************************************)
(* State of one call of transform().                                       *)
(***************************************************************************)
VARIABLES
    pc,                    \* position in transform()
    call,                  \* the arguments as the caller passed them
    caller_translation,    \* contents of the caller's translation object
    dtype,                 \* working precision
    translation,           \* local: [val, aliased]
    origin,                \* local: None, Some(vector), at last Some(offset)
    output_image,          \* local: None or Some(destination array)
    _transform,            \* local: selected native routine
    linear_transformation, \* local: the matrix, inverted at line 143
    native_calls,          \* invocations of the native routine
    exc,                   \* None or Some(exception that ended the call)
    num_threads,           \* size of the worker pool (OMP_NUM_THREADS)
    input_image,           \* contents of the buffer of the caller's image
    progress,              \* per worker: cells of its block written so far
    written                \* per output cell: the workers that wrote it

\* state of the executor of the native routine
executor == << num_threads, input_image, progress, written >>

vars == << pc, call, caller_translation, dtype, translation, origin,
           output_image, _transform, linear_transformation, native_calls, exc,
           executor >>

Raise(type, at) ==
    /\ pc' = "raised"
    /\ exc' = Some([type |-> type, at |-> at])

\* transform() entered with the arguments c in a process of n threads
EnterWith(c, n) ==
    /\ num_threads = n
    /\ input_image = c.input_image
    /\ progress = << >>
    /\ written = << >>
    /\ pc = "check_dimensions"
    /\ call = c
    /\ caller_translation = c.translation.val
    /\ dtype = Unbound
    /\ translation = [val |-> c.translation.val, aliased |-> TRUE]
    /\ origin = c.origin
    /\ output_image = c.output_image
    /\ _transform = Unbound
    /\ linear_transformation = c.linear_transformation
    /\ native_calls = << >>
    /\ exc = None

\* transform() entered with the arguments c, one thread
Enter(c) == EnterWith(c, 1)

\* lines 81-86
CheckDimensions ==
    /\ pc = "check_dimensions"
    /\ IF ~ \A k \in 1..ndim(call.linear_transformation) :
               call.linear_transformation.shape[k] = ndim(call.input_image)
       THEN Raise("ValueError", "linear_transformation")
       ELSE pc' = "dtype" /\ UNCHANGED exc
    /\ UNCHANGED executor
    /\ UNCHANGED << call, caller_translation, dtype, translation, origin,
                    output_image, _transform, linear_transformation, native_calls >>

\* a working precision chosen with "or" in place of "and"
WorkingDtypeOr(dt) == IF dt # "float64" \/ dt # "float32" THEN "float64" ELSE dt

WorkingDtype(dt) == IF dt # "float64" /\ dt # "float32" THEN "float64" ELSE dt

\* lines 88-91
SelectDtype ==
    /\ pc = "dtype"
    /\ dtype' = WorkingDtype(call.input_image.dtype)
    /\ pc' = "translation"
    /\ UNCHANGED executor
    /\ UNCHANGED << call, caller_translation, translation, origin, output_image,
                    _transform, linear_transformation, native_calls, exc >>

\* np.asarray(x, dtype) returns x itself when x is an array of that dtype
AsArrayAliases(kind, dt, want) == kind = "ndarray" /\ dt = want

\* lines 93-99
ConvertTranslation ==
    /\ pc = "translation"
    /\ IF Len(call.translation.val) # ndim(call.input_image)
       THEN Raise("ValueError", "translation") /\ UNCHANGED translation
       ELSE /\ translation' =
                 [val |-> caller_translation,
                  aliased |-> AsArrayAliases(call.translation.kind,
                                             call.translation.dtype, dtype)]
            /\ pc' = "origin"
            /\ UNCHANGED exc
    /\ UNCHANGED executor
    /\ UNCHANGED << call, caller_translation, dtype, origin, output_image,
                    _transform, linear_transformation, native_calls >>

\* a default origin of half the shape
DefaultOriginHalfShape(shape) == [k \in 1..Len(shape) |-> Rat(shape[k], 2)]

\* line 102: the centre of the image
DefaultOrigin(shape) == [k \in 1..Len(shape) |-> Rat(shape[k] - 1, 2)]

\* an origin check that only rejects origins that are too long
SetOriginTooLongOnly ==
    /\ pc = "origin"
    /\ IF origin = None
       THEN /\ origin' = Some(DefaultOrigin(call.input_image.shape))
            /\ pc' = "output_image"
            /\ UNCHANGED exc
       ELSE IF Len(Get(origin)) > ndim(call.input_image)
       THEN Raise("ValueError", "origin") /\ UNCHANGED origin
       ELSE pc' = "output_image" /\ UNCHANGED << origin, exc >>
    /\ UNCHANGED executor
    /\ UNCHANGED << call, caller_translation, dtype, translation, output_image,
                    _transform, linear_transformation, native_calls >>

\* lines 101-109
SetOrigin ==
    /\ pc = "origin"
    /\ IF origin = None
       THEN /\ origin' = Some(DefaultOrigin(call.input_image.shape))
            /\ pc' = "output_image"
            /\ UNCHANGED exc
       ELSE IF Len(Get(origin)) # ndim(call.input_image)
       THEN Raise("ValueError", "origin") /\ UNCHANGED origin
       ELSE pc' = "output_image" /\ UNCHANGED << origin, exc >>
    /\ UNCHANGED executor
    /\ UNCHANGED << call, caller_translation, dtype, translation, output_image,
                    _transform, linear_transformation, native_calls >>

\* lines 111-122
SetOutputImage ==
    /\ pc = "output_image"
    /\ IF output_image = None
       THEN /\ output_image' = Some(Full(call.input_image.shape, dtype, R(0)))
            /\ pc' = "order"
            /\ UNCHANGED exc
       ELSE IF ndim(call.input_image) # ndim(Get(output_image))
       THEN Raise("ValueError", "output_image.ndim") /\ UNCHANGED output_image
       ELSE IF Get(output_image).dtype # dtype
       THEN Raise("ValueError", "output_image.dtype") /\ UNCHANGED output_image
       ELSE pc' = "order" /\ UNCHANGED << output_image, exc >>
    /\ UNCHANGED executor
    /\ UNCHANGED << call, caller_translation, dtype, translation, origin,
                    _transform, linear_transformation, native_calls >>

\* an order selection that falls back to the linear routine
SelectOrderDefaulting ==
    /\ pc = "order"
    /\ IF call.order = "cubic"
       THEN _transform' = "transform_cubic"
       ELSE _transform' = "transform_linear"
    /\ pc' = "output_image_origin"
    /\ UNCHANGED executor
    /\ UNCHANGED << call, caller_translation, dtype, translation, origin,
                    output_image, linear_transformation, native_calls, exc >>

\* an order selection with the two routines exchanged
SelectOrderSwapped ==
    /\ pc = "order"
    /\ IF call.order = "linear"
       THEN _transform' = "transform_cubic" /\ pc' = "output_image_origin"
            /\ UNCHANGED exc
       ELSE IF call.order = "cubic"
       THEN _transform' = "transform_linear" /\ pc' = "output_image_origin"
            /\ UNCHANGED exc
       ELSE Raise("ValueError", "order") /\ UNCHANGED _transform
    /\ UNCHANGED executor
    /\ UNCHANGED << call, caller_translation, dtype, translation, origin,
                    output_image, linear_transformation, native_calls >>

\* lines 124-131
SelectOrder ==
    /\ pc = "order"
    /\ IF call.order = "linear"
       THEN _transform' = "transform_linear" /\ pc' = "output_image_origin"
            /\ UNCHANGED exc
       ELSE IF call.order = "cubic"
       THEN _transform' = "transform_cubic" /\ pc' = "output_image_origin"
            /\ UNCHANGED exc
       ELSE Raise("ValueError", "order") /\ UNCHANGED _transform
    /\ UNCHANGED executor
    /\ UNCHANGED << call, caller_translation, dtype, translation, origin,
                    output_image, linear_transformation, native_calls >>

\* translation += output_image_origin
ShiftAdding ==
    /\ pc = "output_image_origin"
    /\ IF call.output_image_origin = None
       THEN pc' = "inv" /\ UNCHANGED << translation, caller_translation, exc >>
       ELSE IF Len(Get(call.output_image_origin)) # ndim(call.input_image)
       THEN Raise("ValueError", "output_image_origin")
            /\ UNCHANGED << translation, caller_translation >>
       ELSE /\ translation' =
                 [translation EXCEPT
                     !.val = VAdd(translation.val, Get(call.output_image_origin))]
            /\ caller_translation' =
                 IF translation.aliased
                 THEN VAdd(translation.val, Get(call.output_image_origin))
                 ELSE caller_translation
            /\ pc' = "inv"
            /\ UNCHANGED exc
    /\ UNCHANGED executor
    /\ UNCHANGED << call, dtype, origin, output_image, _transform,
                    linear_transformation, native_calls >>

\* lines 133-140: translation -= output_image_origin, in place
ShiftByOutputImageOrigin ==
    /\ pc = "output_image_origin"
    /\ IF call.output_image_origin = None
       THEN pc' = "inv" /\ UNCHANGED << translation, caller_translation, exc >>
       ELSE IF Len(Get(call.output_image_origin)) # ndim(call.input_image)
       THEN Raise("ValueError", "output_image_origin")
            /\ UNCHANGED << translation, caller_translation >>
       ELSE /\ translation' =
                 [translation EXCEPT
                     !.val = VSub(translation.val, Get(call.output_image_origin))]
            /\ caller_translation' =
                 IF translation.aliased
                 THEN VSub(translation.val, Get(call.output_image_origin))
                 ELSE caller_translation
            /\ pc' = "inv"
            /\ UNCHANGED exc
    /\ UNCHANGED executor
    /\ UNCHANGED << call, dtype, origin, output_image, _transform,
                    linear_transformation, native_calls >>

\* a matrix that is checked for singularity but handed on as it is
InvertSkipped ==
    /\ pc = "inv"
    /\ IF InvRaises(linear_transformation)
       THEN Raise("LinAlgError", "inv") /\ UNCHANGED linear_transformation
       ELSE /\ linear_transformation' = linear_transformation
            /\ pc' = "offset"
            /\ UNCHANGED exc
    /\ UNCHANGED executor
    /\ UNCHANGED << call, caller_translation, dtype, translation, origin,
                    output_image, _transform, native_calls >>

\* line 143
Invert ==
    /\ pc = "inv"
    /\ IF InvRaises(linear_transformation)
       THEN Raise("LinAlgError", "inv") /\ UNCHANGED linear_transformation
       ELSE /\ linear_transformation' = inv(linear_transformation)
            /\ pc' = "offset"
            /\ UNCHANGED exc
    /\ UNCHANGED executor
    /\ UNCHANGED << call, caller_translation, dtype, translation, origin,
                    output_image, _transform, native_calls >>

\* (linear_transformation @ (translation - origin)) + origin
OffsetSignSlip(invL, t, o) ==
    LET r == BroadcastAdd(MatMul(invL, VSub(t, o)), o)
    IN  IF ndim(r) = 1 THEN AsVector(r) ELSE r

\* linear_transformation @ (-translation - origin)
OffsetWithoutOrigin(invL, t, o) ==
    LET r == MatMul(invL, VSub(VNeg(t), o))
    IN  IF ndim(r) = 1 THEN AsVector(r) ELSE r

\* line 145: (linear_transformation @ (-translation - origin)) + origin
Offset(invL, t, o) ==
    LET r == BroadcastAdd(MatMul(invL, VSub(VNeg(t), o)), o)
    IN  IF ndim(r) = 1 THEN AsVector(r) ELSE r

ComputeOffset ==
    /\ pc = "offset"
    /\ origin' = Some(Offset(linear_transformation, translation.val, Get(origin)))
    /\ pc' = "call_native"
    /\ UNCHANGED executor
    /\ UNCHANGED << call, caller_translation, dtype, translation, output_image,
                    _transform, linear_transformation, native_calls, exc >>

\* a native call that does not forward background_value
CallNativeDefaultBackground ==
    /\ pc = "call_native"
    /\ native_calls' =
          Append(native_calls,
                 [routine |-> _transform, origin |-> Get(origin),
                  columns |-> Transposed(linear_transformation),
                  background_value |-> R(0)])
    /\ IF ndim(linear_transformation) = 2
       THEN /\ progress' = [w \in 1..num_threads |-> 0]
            /\ written' = [idx \in Indices(Get(output_image).shape) |-> << >>]
            /\ pc' = "sampling"
            /\ UNCHANGED exc
       ELSE /\ \E e \in NativeRejections : Raise(e, "native")
            /\ UNCHANGED << progress, written >>
    /\ UNCHANGED << call, caller_translation, dtype, translation, origin,
                    output_image, _transform, linear_transformation,
                    num_threads, input_image >>

\* lines 147-153: the native routine is entered with the offset, the
\* columns, the input buffer (astype(dtype, copy=False) hands over the
\* buffer itself when it has the working precision), the destination and
\* the background value; its workers start on their blocks
CallNative ==
    /\ pc = "call_native"
    /\ native_calls' =
          Append(native_calls,
                 [routine |-> _transform, origin |-> Get(origin),
                  columns |-> Transposed(linear_transformation),
                  background_value |-> call.background_value])
    /\ IF ndim(linear_transformation) = 2
       THEN /\ progress' = [w \in 1..num_threads |-> 0]
            /\ written' = [idx \in Indices(Get(output_image).shape) |-> << >>]
            /\ pc' = "sampling"
            /\ UNCHANGED exc
       ELSE /\ \E e \in NativeRejections : Raise(e, "native")
            /\ UNCHANGED << progress, written >>
    /\ UNCHANGED << call, caller_translation, dtype, translation, origin,
                    output_image, _transform, linear_transformation,
                    num_threads, input_image >>

\* one worker samples the next cell of its block from the input buffer and
\* writes it to the destination; a destination that is the input image
\* itself shares its buffer
Worker(w) ==
    /\ pc = "sampling"
    /\ progress[w] < BlockCells(Get(output_image).shape, num_threads, w)
    /\ \E idx \in { BlockCell(Get(output_image).shape, num_threads, w,
                               progress[w]) } :
         \E value \in { Sample(native_calls[1].routine, native_calls[1].origin,
                                native_calls[1].columns, input_image,
                                native_calls[1].background_value, idx) } :
            /\ output_image' =
                  Some([Get(output_image) EXCEPT !.data[idx] = value])
            /\ input_image' =
                  IF call.output_is_input
                  THEN [input_image EXCEPT !.data[idx] = value]
                  ELSE input_image
            /\ written' = [written EXCEPT ![idx] = Append(@, w)]
    /\ progress' = [progress EXCEPT ![w] = @ + 1]
    /\ UNCHANGED << pc, call, caller_translation, dtype, translation, origin,
                    _transform, linear_transformation, native_calls, exc,
                    num_threads >>

\* the native routine returns when every worker has finished its block
Join ==
    /\ pc = "sampling"
    /\ \A w \in 1..num_threads :
          progress[w] = BlockCells(Get(output_image).shape, num_threads, w)
    /\ pc' = "return"
    /\ UNCHANGED << call, caller_translation, dtype, translation, origin,
                    output_image, _transform, linear_transformation,
                    native_calls, exc, executor >>

\* line 155
Return ==
    /\ pc = "return"
    /\ pc' = "returned"
    /\ UNCHANGED executor
    /\ UNCHANGED << call, caller_translation, dtype, translation, origin,
                    output_image, _transform, linear_transformation,
                    native_calls, exc >>

Next ==
    \/ CheckDimensions
    \/ SelectDtype
    \/ ConvertTranslation
    \/ SetOrigin
    \/ SetOutputImage
    \/ SelectOrder
    \/ ShiftByOutputImageOrigin
    \/ Invert
    \/ ComputeOffset
    \/ CallNative
    \/ \E w \in 1..num_threads : Worker(w)
    \/ Join
    \/ Return

(***************************************************************************)
(* The calls the model explores.                                           *)
(***************************************************************************)
Tuple(v) == [kind |-> "tuple", dtype |-> "object", val |-> v]
NdArray(dt, v) == [kind |-> "ndarray", dtype |-> dt, val |-> v]

\* np.eye-like contents: ones where the last two indices agree
EyeLike(shape) ==
    Array(shape, "float64",
          [i \in Indices(shape) |->
              IF Len(shape) < 2 \/ i[Len(shape)] = i[Len(shape) - 1]
              THEN R(1) ELSE R(0)])

\* shapes offered as linear_transformation: every two-axis shape, and the
\* one-axis and three-axis shapes with equal entries
LtShapes ==
    [1..2 -> 1..MaxDim]
        \cup { VConst(1, n) : n \in 1..MaxDim }
        \cup { VConst(3, n) : n \in 1..MaxDim }

LinearArgs ==
    { EyeLike(sh) : sh \in LtShapes }
        \cup { Full(VConst(2, n), "float64", R(0)) : n \in 1..MaxDim }

InputDtypes == {"float64", "float32", "int64"}
OutputDtypes == {"float64", "float32"}

\* a call as the record of its arguments
Call(img, lt, t, ord, og, out, u, bg) ==
    [input_image |-> img,
     linear_transformation |-> lt,
     translation |-> t,
     order |-> ord,
     origin |-> og,
     output_image |-> out,
     output_image_origin |-> u,
     background_value |-> bg,
     output_is_input |-> FALSE]

\* the call c with the input image itself passed as output_image
InPlace(c) ==
    [c EXCEPT !.output_image = Some(c.input_image), !.output_is_input = TRUE]

\* vectors of zeros of every length 1..MaxDim, given or omitted
OptionalZeros == {None} \cup { Some(VConst(n, R(0))) : n \in 1..MaxDim }

\* calls that exercise the argument checks: images of shape (1,)*dm, every
\* argument of every length 1..MaxDim or omitted
Init ==
    \E dm \in 1..MaxDim, dt \in InputDtypes, lt \in LinearArgs,
       tn \in 1..MaxDim, ord \in {"linear", "cubic", "fantastic"},
       og \in OptionalZeros, u \in OptionalZeros,
       out \in {None} \cup { Some(Full(VConst(n, 1), odt, R(7))) :
                                n \in 1..MaxDim, odt \in OutputDtypes } :
        Enter(Call(Full(VConst(dm, 1), dt, R(1)), lt,
                   Tuple(VConst(tn, R(0))), ord, og, out, u, R(0)))

Spec == Init /\ [][Next]_vars

(***************************************************************************)
(* Calls that sample images: float64 images of 1..MaxDim axes.             *)
(***************************************************************************)
RECURSIVE Flat(_, _, _)
\* the row-major position of index i, counting axes k..Len(shape)
Flat(i, shape, k) ==
    IF k = 0 THEN 0 ELSE Flat(i, shape, k - 1) * shape[k] + i[k]

\* cell values 2, 2 + g, 2 + 2g, ... in row-major order: uniform for g = 0
Image(shape, g) ==
    Array(shape, "float64",
          [i \in Indices(shape) |-> R(2 + g * Flat(i, shape, Len(shape)))])

\* (n,)*dm for every size n, and the same with one axis of a single cell
Cubes(dm) == { VConst(dm, n) : n \in 1..MaxSize }
Shapes(dm) ==
    Cubes(dm) \cup { [k \in 1..dm |-> IF k = a THEN 1 ELSE n] :
                        a \in 1..dm, n \in 1..MaxSize }

\* vectors that are zero except for one entry drawn from vals
OneAxis(dm, vals) ==
    { VConst(dm, R(0)) }
        \cup { [k \in 1..dm |-> IF k = a THEN x ELSE R(0)] :
                  a \in 1..dm, x \in vals }

TranslationValues == { R(1), Rat(2, 3) }
OutputOriginValues == { R(1), Rat(1, 2) }
BackgroundValues == { R(0), R(15) }

Eye(dm) == EyeLike(VConst(2, dm))

\* the first axis scaled by two
Scale(dm) ==
    Array(VConst(2, dm), "float64",
          [i \in Indices(VConst(2, dm)) |->
              IF i[1] # i[2] THEN R(0) ELSE IF i[1] = 0 THEN R(2) ELSE R(1)])

\* a quarter turn in the plane of the last two axes (a reflection of the
\* only axis when there is one)
QuarterTurn(dm) ==
    Array(VConst(2, dm), "float64",
          [i \in Indices(VConst(2, dm)) |->
              IF dm = 1 THEN R(-1)
              ELSE IF i[1] = dm - 2 /\ i[2] = dm - 1 THEN R(-1)
              ELSE IF i[1] = dm - 1 /\ i[2] = dm - 2 THEN R(1)
              ELSE IF i[1] = i[2] /\ i[1] < dm - 2 THEN R(1)
              ELSE R(0)])

\* the rotation by q quarter turns in the plane of the last two axes
Cos(q) == CASE q % 4 = 0 -> R(1) [] q % 4 = 2 -> R(-1) [] OTHER -> R(0)
Sin(q) == CASE q % 4 = 1 -> R(1) [] q % 4 = 3 -> R(-1) [] OTHER -> R(0)
Rotation(dm, q) ==
    Array(VConst(2, dm), "float64",
          [i \in Indices(VConst(2, dm)) |->
              IF i[1] >= dm - 2 /\ i[2] >= dm - 2
              THEN IF i[1] = i[2] THEN Cos(q)
                   ELSE IF i[1] < i[2] THEN RNeg(Sin(q)) ELSE Sin(q)
              ELSE IF i[1] = i[2] THEN R(1) ELSE R(0)])

\* a matrix whose first row is zero
Singular(dm) ==
    Array(VConst(2, dm), "float64",
          [i \in Indices(VConst(2, dm)) |->
              IF i[1] = i[2] /\ i[1] > 0 THEN R(1) ELSE R(0)])

SampleMatrices(dm) == { Eye(dm), Scale(dm), QuarterTurn(dm), Singular(dm) }

\* a destination of the input's shape but for a last axis of one cell
SliceOf(shape) ==
    Full([k \in 1..Len(shape) |-> IF k = Len(shape) THEN 1 ELSE shape[k]],
         "float64", R(7))

SampleShapes(family) ==
    UNION { IF family = "cubes" THEN Cubes(dm) ELSE Shapes(dm) :
              dm \in 1..MaxDim }

OptionalOutputOrigin(dm) ==
    {None} \cup { Some(v) : v \in OneAxis(dm, OutputOriginValues) }

\* an output_image_origin that selects a slice along the last axis
SliceOrigin(dm) ==
    {None} \cup { Some([k \in 1..dm |-> IF k = dm THEN x ELSE R(0)]) :
                    x \in OutputOriginValues }

\* calls that vary the affine map
EnterCoordinateCall ==
    \E sh \in SampleShapes("cubes") :
      \E lt \in SampleMatrices(Len(sh)),
         v \in OneAxis(Len(sh), TranslationValues),
         t \in {"tuple", "ndarray"},
         og \in {None, Some(VConst(Len(sh), R(1)))},
         u \in OptionalOutputOrigin(Len(sh)) :
        Enter(Call(Image(sh, 1), lt,
                   IF t = "tuple" THEN Tuple(v) ELSE NdArray("float64", v),
                   "linear", og, None, u, R(0)))

\* calls that vary the image, the kernel and the destination under the
\* identity map: the destination omitted, or a slice selected by
\* output_image_origin
EnterKernelCall ==
    \E sh \in SampleShapes("all") :
      \E g \in {0, 1},
         v \in OneAxis(Len(sh), TranslationValues),
         ord \in {"linear", "cubic"},
         out \in {None, Some(SliceOf(sh))},
         bg \in BackgroundValues :
        \E u \in IF out = None THEN {None} ELSE SliceOrigin(Len(sh)) :
            Enter(Call(Image(sh, g), Eye(Len(sh)), Tuple(v), ord, None, out, u, bg))

\* side of the images that are rotated, side of the block of ones
ImageSide == 6
BlockSide == 3

\* np.ones((6,) * dim)
Ones(dm) == Full(VConst(dm, ImageSide), "float64", R(1))

\* np.zeros((6,) * dim) with the block [0, 3)^dim set to 1
Block(dm) ==
    Array(VConst(dm, ImageSide), "float64",
          [i \in Indices(VConst(dm, ImageSide)) |->
              IF \A k \in 1..dm : i[k] < BlockSide THEN R(1) ELSE R(0)])

\* calls that rotate an image by quarter turns about its centre or about
\* the centre of its block
EnterRotationCall ==
    \E dm \in 2..MaxDim, q \in 1..3, centred \in BOOLEAN :
        Enter(Call(IF centred THEN Ones(dm) ELSE Block(dm),
                   Rotation(dm, q), Tuple(VConst(dm, R(0))), "linear",
                   IF centred THEN None ELSE Some(VConst(dm, R(1))),
                   None, None, R(0)))

InitSample == EnterCoordinateCall \/ EnterKernelCall \/ EnterRotationCall

SpecSample == InitSample /\ [][Next]_vars

(***************************************************************************)
(* Calls run by 1..MaxThreads workers, the destination omitted or, for a   *)
(* one-axis image, the input image itself.                                 *)
(***************************************************************************)
InitWorkers ==
    \E sh \in SampleShapes("cubes") :
      \E lt \in { Eye(Len(sh)), QuarterTurn(Len(sh)) },
         v \in OneAxis(Len(sh), TranslationValues),
         ord \in {"linear", "cubic"},
         n \in 1..MaxThreads,
         inplace \in { b \in BOOLEAN : b => Len(sh) = 1 } :
        \E c \in { Call(Image(sh, 1), lt, NdArray("float64", v), ord,
                         None, None, None, R(0)) } :
            EnterWith(IF inplace THEN InPlace(c) ELSE c, n)

SpecWorkers == InitWorkers /\ [][Next]_vars

(***************************************************************************)
(* Properties of the argument checks.                                      *)
(***************************************************************************)
input_ndim == ndim(call.input_image)
Raised == pc = "raised"
RaisedAt(type, at) == exc # None /\ Get(exc).type = type /\ Get(exc).at = at
RaisedType(type) == exc # None /\ Get(exc).type = type

\* positions behind each check of transform()
AfterOutputImageOrigin ==
    {"inv", "offset", "call_native", "sampling", "return", "returned"}
AfterOrder == AfterOutputImageOrigin \cup {"output_image_origin"}
AfterOutputImage == AfterOrder \cup {"order"}
AfterOrigin == AfterOutputImage \cup {"output_image"}
AfterTranslation == AfterOrigin \cup {"origin"}
AfterDimensions == AfterTranslation \cup {"translation", "dtype"}

C2_BadShapeRaisesValueError ==
    call.linear_transformation.shape # << input_ndim, input_ndim >>
        => /\ native_calls = << >>
           /\ pc # "returned"
           /\ Raised => (RaisedType("ValueError") \/ RaisedType("LinAlgError"))

WrongTranslation == Len(call.translation.val) # input_ndim
WrongOrigin == call.origin # None /\ Len(Get(call.origin)) # input_ndim
WrongOutputImage ==
    call.output_image # None /\ ndim(Get(call.output_image)) # input_ndim
WrongOutputImageOrigin ==
    call.output_image_origin # None /\ Len(Get(call.output_image_origin)) # input_ndim

\* C3: with a (d, d) linear_transformation, a translation, origin or
\* output_image_origin of the wrong length or an output_image of the wrong
\* dimensionality makes the call raise ValueError: the call does not get
\* past the checks; and no such error is raised for an omitted argument.
C3_LengthsChecked ==
    /\ call.linear_transformation.shape = << input_ndim, input_ndim >>
          => /\ pc \in AfterTranslation => ~ WrongTranslation
             /\ pc \in AfterOrigin => ~ WrongOrigin
             /\ pc \in AfterOutputImage => ~ WrongOutputImage
             /\ pc \in AfterOutputImageOrigin => ~ WrongOutputImageOrigin
             /\ (Raised /\ (WrongTranslation \/ WrongOrigin \/ WrongOutputImage
                              \/ WrongOutputImageOrigin))
                  => RaisedType("ValueError")
    /\ RaisedAt("ValueError", "translation") => WrongTranslation
    /\ RaisedAt("ValueError", "origin") => WrongOrigin
    /\ RaisedAt("ValueError", "output_image.ndim") => WrongOutputImage
    /\ RaisedAt("ValueError", "output_image_origin") => WrongOutputImageOrigin

C3_Witness ==
    /\ Raised
    /\ RaisedAt("ValueError", "output_image_origin")
    /\ call.linear_transformation.shape = << input_ndim, input_ndim >>
    /\ call.origin = None
    /\ call.output_image = None

\* the working precision as the documentation states it
Precision(dt) ==
    CASE dt = "float32" -> "float32"
      [] dt = "float64" -> "float64"
      [] OTHER -> "float64"

\* C4: the working precision is the input's dtype when that is float32 or
\* float64 and float64 otherwise; a call that reaches the check of a
\* supplied output_image of the right dimensionality raises ValueError
\* there exactly when its dtype differs from the working precision; with
\* output_image omitted the returned array has the working precision and
\* the input's shape.
C4_WorkingPrecision ==
    /\ pc \in AfterDimensions \ {"dtype"}
          => dtype = Precision(call.input_image.dtype)
    /\ (/\ call.output_image # None
        /\ ~ WrongOutputImage
        /\ pc \in AfterOutputImage \/ (Raised /\ Get(exc).at \notin
                {"linear_transformation", "translation", "origin"}))
          => (RaisedAt("ValueError", "output_image.dtype")
                <=> Get(call.output_image).dtype
                      # Precision(call.input_image.dtype))
    /\ (exc # None /\ Get(exc).at = "output_image.dtype")
          => (call.output_image # None /\ Get(exc).type = "ValueError")
    /\ (pc = "returned" /\ call.output_image = None)
          => /\ Get(output_image).dtype = Precision(call.input_image.dtype)
             /\ Get(output_image).shape = call.input_image.shape

C4_Witness ==
    /\ Raised
    /\ RaisedAt("ValueError", "output_image.dtype")
    /\ call.input_image.dtype = "int64"
    /\ Get(call.output_image).dtype = "float32"

\* C5: order "linear" selects transform_linear, order "cubic" selects
\* transform_cubic, the selection stays as made, and any other order
\* raises ValueError without either routine being invoked.
C5_OrderIsClosedChoice ==
    /\ pc \in AfterOrder
          => \/ call.order = "linear" /\ _transform = "transform_linear"
             \/ call.order = "cubic" /\ _transform = "transform_cubic"
    /\ \A i \in 1..Len(native_calls) : native_calls[i].routine = _transform
    /\ call.order \notin {"linear", "cubic"}
          => /\ native_calls = << >>
             /\ pc \notin AfterOrder
             /\ Raised => RaisedType("ValueError")
    /\ RaisedAt("ValueError", "order") => call.order \notin {"linear", "cubic"}

C5_Witness ==
    /\ Raised
    /\ RaisedAt("ValueError", "order")
    /\ call.order = "fantastic"
    /\ native_calls = << >>

(***************************************************************************)
(* Properties of the coordinates and of the sampled values.                *)
(***************************************************************************)
\* the arguments of the call as the documentation reads them
GivenTranslation == call.translation.val
GivenOrigin ==
    IF call.origin = None
    THEN [k \in 1..input_ndim |-> Rat(call.input_image.shape[k] - 1, 2)]
    ELSE Get(call.origin)
GivenOutputOrigin ==
    IF call.output_image_origin = None
    THEN [k \in 1..input_ndim |-> R(0)]
    ELSE Get(call.output_image_origin)
\* u - translation
GivenShift == VSub(GivenOutputOrigin, GivenTranslation)

IsIdentity == call.linear_transformation = Eye(input_ndim)
IsSquare == call.linear_transformation.shape = << input_ndim, input_ndim >>
Returned == pc = "returned"
Result == Get(output_image)

\* the matrix L applied to the vector v
Apply(L, v) ==
    [i \in 1..Len(v) |->
        Dot([j \in 1..Len(v) |-> L.data[<< i - 1, j - 1 >>]], v, Len(v))]

AsRationals(idx) == [k \in 1..Len(idx) |-> R(idx[k])]

\* C6: the offset and the matrix that were handed to the native routine make the
\* sampled coordinate of every output index idx equal to
\* invL*(idx + u - translation - origin) + origin, the offset being
\* invL*(u - translation - origin) + origin; stated with the caller's
\* matrix L on the other side: L*(s - origin) = idx + u - translation
\* - origin and L*(offset - origin) = u - translation - origin.
C6_SampledCoordinate ==
    (Returned /\ IsSquare)
        => /\ Apply(call.linear_transformation,
                    VSub(native_calls[1].origin, GivenOrigin))
                = VSub(GivenShift, GivenOrigin)
           /\ \A idx \in Indices(Result.shape) :
                 Apply(call.linear_transformation,
                       VSub(SampleCoordinate(native_calls[1].origin,
                                             native_calls[1].columns, idx),
                            GivenOrigin))
                   = VSub(VAdd(AsRationals(idx), GivenShift), GivenOrigin)

C6_Witness ==
    /\ Returned
    /\ input_ndim = 2
    /\ call.linear_transformation = Scale(2)
    /\ call.origin = None
    /\ call.input_image.shape = << 2, 2 >>
    /\ call.output_image_origin = Some(<< R(0), Rat(1, 2) >>)
    /\ GivenTranslation = << Rat(2, 3), R(0) >>

\* C7: with the identity matrix, a zero translation and every other
\* argument at its default, the returned image equals the input image cell
\* for cell, for every shape.
C7_Identity ==
    (/\ Returned
     /\ IsIdentity
     /\ GivenTranslation = [k \in 1..input_ndim |-> R(0)]
     /\ call.order = "linear"
     /\ call.origin = None
     /\ call.output_image = None
     /\ call.output_image_origin = None
     /\ call.background_value = R(0))
        => /\ Result.shape = call.input_image.shape
           /\ Result.data = call.input_image.data

C7_Witness ==
    /\ Returned
    /\ IsIdentity
    /\ GivenTranslation = << R(0), R(0) >>
    /\ call.order = "linear"
    /\ call.origin = None
    /\ call.output_image = None
    /\ call.output_image_origin = None
    /\ call.background_value = R(0)
    /\ call.input_image.shape = << 2, 1 >>
    /\ Result.data[<< 1, 0 >>] = R(3)

IsIntegral(v) == \A k \in 1..Len(v) : v[k][2] = 1

Inside(shape, index) ==
    \A k \in 1..Len(shape) : index[k] >= 0 /\ index[k] <= shape[k] - 1

\* the input cell at index, or the background value outside the input
Padded(index) ==
    IF Inside(call.input_image.shape, index)
    THEN call.input_image.data[index]
    ELSE call.background_value

\* C8: with the identity matrix, an integer translation t and an integer
\* output_image_origin u, output[idx] = input[idx + u - t] where that
\* index lies inside the input and background_value elsewhere, for either
\* kernel and also for a destination whose shape differs from the input's.
C8_IntegerShift ==
    (/\ Returned
     /\ IsIdentity
     /\ IsIntegral(GivenTranslation)
     /\ IsIntegral(GivenOutputOrigin))
        => \A idx \in Indices(Result.shape) :
             Result.data[idx]
               = Padded([k \in 1..input_ndim |-> idx[k] + GivenShift[k][1]])

C8_Witness ==
    /\ Returned
    /\ IsIdentity
    /\ call.input_image.shape = << 2, 2 >>
    /\ call.output_image # None
    /\ Result.shape = << 2, 1 >>
    /\ GivenTranslation = << R(1), R(0) >>
    /\ call.output_image_origin = Some(<< R(0), R(1) >>)
    /\ call.order = "cubic"
    /\ call.background_value = R(15)
    /\ Result.data[<< 0, 0 >>] = R(15)
    /\ Result.data[<< 1, 0 >>] = call.input_image.data[<< 0, 1 >>]
    /\ call.input_image.data[<< 0, 1 >>] = R(3)

\* the axes along which the shift u - translation is fractional
FractionalAxes == { k \in 1..input_ndim : GivenShift[k][2] # 1 }

\* the value C9 states for the output cell idx when the shift is
\* fractional along the axis a only
Blend(idx, a) ==
    LET c == VAdd(AsRationals(idx), GivenShift)
        f == RFloor(c[a])
        w == RFrac(c[a])
        lower == [k \in 1..input_ndim |-> IF k = a THEN f ELSE c[k][1]]
        upper == [k \in 1..input_ndim |-> IF k = a THEN f + 1 ELSE c[k][1]]
    IN  RAdd(RMul(RSub(R(1), w), Padded(lower)), RMul(w, Padded(upper)))

IsUniform ==
    \A i \in DOMAIN call.input_image.data : call.input_image.data[i] = R(2)

\* C9: with the identity matrix, order "linear" and a shift that is
\* fractional along one axis, every output cell is (1-w)*p(f) + w*p(f+1)
\* over its two neighbours along that axis, a neighbour outside the input
\* counting as background_value; a uniform image of value V translated by
\* 2/3 along one axis yields V/3 + 2/3*background_value in the first slice
\* and V elsewhere; a one-cell image of value V sampled at 1/2 with
\* background 0 yields V/2.
C9_LinearBlend ==
    (Returned /\ IsIdentity /\ call.order = "linear")
        => /\ Cardinality(FractionalAxes) = 1
                => \A idx \in Indices(Result.shape) :
                     Result.data[idx] = Blend(idx, The(FractionalAxes))
           /\ \A a \in 1..input_ndim :
                 (/\ IsUniform
                  /\ call.output_image = None
                  /\ call.output_image_origin = None
                  /\ GivenTranslation
                       = [k \in 1..input_ndim |->
                             IF k = a THEN Rat(2, 3) ELSE R(0)])
                    => \A idx \in Indices(Result.shape) :
                         Result.data[idx]
                           = IF idx[a] = 0
                             THEN RAdd(RMul(Rat(1, 3), R(2)),
                                       RMul(Rat(2, 3), call.background_value))
                             ELSE R(2)
           /\ (/\ call.input_image.shape = [k \in 1..input_ndim |-> 1]
               /\ GivenTranslation = [k \in 1..input_ndim |-> R(0)]
               /\ GivenOutputOrigin
                    = [k \in 1..input_ndim |->
                          IF k = input_ndim THEN Rat(1, 2) ELSE R(0)]
               /\ call.background_value = R(0))
                 => Result.data[[k \in 1..input_ndim |-> 0]]
                      = RMul(Rat(1, 2),
                             call.input_image.data[[k \in 1..input_ndim |-> 0]])

C9_Witness ==
    /\ Returned
    /\ IsIdentity
    /\ call.order = "linear"
    /\ IsUniform
    /\ call.input_image.shape = << 2, 2 >>
    /\ call.output_image = None
    /\ call.output_image_origin = None
    /\ GivenTranslation = << R(0), Rat(2, 3) >>
    /\ call.background_value = R(15)
    /\ Result.data[<< 1, 0 >>] = Rat(32, 3)
    /\ Result.data[<< 1, 1 >>] = R(2)

\* catmull_rom_interp of the tests: the cubic through p0..p3 at x
CatmullRom(p0, p1, p2, p3, x) ==
    LET h(q) == RMul(Rat(1, 2), q)
        a3 == RAdd(RSub(RMul(Rat(3, 2), p1), h(p0)),
                   RSub(h(p3), RMul(Rat(3, 2), p2)))
        a2 == RAdd(RSub(p0, RMul(Rat(5, 2), p1)),
                   RSub(RMul(R(2), p2), h(p3)))
        a1 == RSub(h(p2), h(p0))
    IN  RAdd(RAdd(RMul(a3, Cube(x)), RMul(a2, Square(x))),
             RAdd(RMul(a1, x), p1))

\* the four weights of C10, factored
Weighted(p0, p1, p2, p3, w) ==
    LET one == R(1)
        c0 == RNeg(RMul(Half, RMul(w, Square(RSub(one, w)))))
        c1 == RMul(Half, RAdd(RSub(RMul(R(3), Cube(w)),
                                   RMul(R(5), Square(w))), R(2)))
        c2 == RMul(Half, RMul(w, RAdd(RSub(RMul(R(4), w),
                                           RMul(R(3), Square(w))), one)))
        c3 == RMul(Half, RMul(Square(w), RSub(w, one)))
    IN  RAdd(RAdd(RMul(c0, p0), RMul(c1, p1)),
             RAdd(RMul(c2, p2), RMul(c3, p3)))

\* C10: on a one-axis image, with order "cubic", the identity matrix and
\* translation t, every output cell is the Catmull-Rom combination of the
\* four taps f-1..f+2 around the sampled coordinate idx - t (floor f,
\* remainder w), each tap outside the input counting as background_value.
C10_CubicOneAxis ==
    (/\ Returned
     /\ input_ndim = 1
     /\ IsIdentity
     /\ call.order = "cubic"
     /\ call.output_image_origin = None)
        => \A idx \in Indices(Result.shape) :
             LET c == RSub(R(idx[1]), GivenTranslation[1])
                 f == RFloor(c)
                 w == RFrac(c)
             IN  /\ Result.data[idx]
                      = Weighted(Padded(<< f - 1 >>), Padded(<< f >>),
                                 Padded(<< f + 1 >>), Padded(<< f + 2 >>), w)
                 /\ Result.data[idx]
                      = CatmullRom(Padded(<< f - 1 >>), Padded(<< f >>),
                                   Padded(<< f + 1 >>), Padded(<< f + 2 >>), w)

C10_Witness ==
    /\ Returned
    /\ input_ndim = 1
    /\ IsIdentity
    /\ call.order = "cubic"
    /\ call.output_image_origin = None
    /\ call.output_image = None
    /\ call.input_image.shape = << 2 >>
    /\ call.input_image.data[<< 1 >>] = R(3)
    /\ GivenTranslation = << Rat(2, 3) >>
    /\ call.background_value = R(15)
    /\ Result.data[<< 0 >>] # R(15)
    /\ Result.data[<< 0 >>] # R(2)

(***************************************************************************)
(* Rotations by multiples of 90 degrees.                                   *)
(***************************************************************************)
IsQuarterTurns ==
    input_ndim >= 2
        /\ \E q \in 1..3 : call.linear_transformation = Rotation(input_ndim, q)

\* C11: for a rotation by 90, 180 or 270 degrees in the plane of the last
\* two axes and a zero translation, the returned image equals the input
\* image, both for the image of ones rotated about the default origin and
\* for the image whose block [0, 3)^d is one rotated about (1, ..., 1).
C11_QuarterTurnsReproduce ==
    (/\ Returned
     /\ IsQuarterTurns
     /\ GivenTranslation = [k \in 1..input_ndim |-> R(0)]
     /\ call.output_image = None
     /\ call.output_image_origin = None
     /\ \/ call.input_image = Ones(input_ndim) /\ call.origin = None
        \/ /\ call.input_image = Block(input_ndim)
           /\ call.origin = Some([k \in 1..input_ndim |-> R(1)]))
        => /\ Result.shape = call.input_image.shape
           /\ Result.data = call.input_image.data

C11_Witness ==
    /\ Returned
    /\ call.linear_transformation = Rotation(2, 1)
    /\ call.input_image = Block(2)
    /\ call.origin = Some(<< R(1), R(1) >>)
    /\ GivenTranslation = << R(0), R(0) >>
    /\ Result.data[<< 2, 0 >>] = R(1)
    /\ Result.data[<< 3, 0 >>] = R(0)
    /\ SampleCoordinate(native_calls[1].origin, native_calls[1].columns,
                        << 2, 0 >>) # << R(2), R(0) >>

(***************************************************************************)
(* The workers of the native routine.                                      *)
(***************************************************************************)
InNative == pc \in {"sampling", "return", "returned"}

\* the output of the routine of the call run as a whole on the image the
\* caller passed
Reference ==
    IF native_calls[1].routine = "transform_linear"
    THEN transform_linear(native_calls[1].origin, native_calls[1].columns,
                          call.input_image, Result,
                          native_calls[1].background_value)
    ELSE transform_cubic(native_calls[1].origin, native_calls[1].columns,
                         call.input_image, Result,
                         native_calls[1].background_value)

\* C12: while the native routine runs, under every interleaving of its
\* workers, no output cell is written by two workers and the input image
\* holds what the caller passed; once the routine has returned, every
\* worker has finished its block, every output cell has been written
\* exactly once, and the output is the one of the routine run as a whole,
\* whatever the number of workers and their blocks.
C12_WorkersKeepApart ==
    InNative
        => /\ \A idx \in DOMAIN written : Len(written[idx]) <= 1
           /\ input_image = call.input_image
           /\ pc \in {"return", "returned"}
                 => /\ \A w \in 1..num_threads :
                         progress[w] = BlockCells(Result.shape, num_threads, w)
                    /\ \A idx \in Indices(Result.shape) :
                         Len(written[idx]) = 1
                    /\ Result = Reference

(***************************************************************************)
(* The offset vector in terms of the effective offset b.                   *)
(***************************************************************************)
\* invL, the inverse of the caller's matrix (C13 binds it and the vectors
\* once and tabulates them by comparing them)
InvL == inv(call.linear_transformation)

\* b = invL*(-translation - origin) + origin, for invL = M
EffectiveOffset(M, t, o) == VAdd(Apply(M, VSub(VNeg(t), o)), o)

\* invL*idx + offset
Mapped(M, idx, offset) == VAdd(Apply(M, AsRationals(idx)), offset)

\* invL*(idx + u - translation - origin) + origin, for shift = u - translation
Coordinate(M, idx, shift, o) ==
    VAdd(Apply(M, VSub(VAdd(AsRationals(idx), shift), o)), o)

\* C13: the offset vector that was handed to the native routine equals
\* b + invL*(u - translation), with b = invL*(-translation - origin)
\* + origin, and invL*idx + (b + invL*(u - translation)) equals
\* invL*(idx + u - translation - origin) + origin for every output index.
C13_OffsetAsStated ==
    (Returned /\ IsSquare)
        => \E M \in { m \in { InvL } : m.data = m.data },
              o \in { v \in { GivenOrigin } : v = v },
              shift \in { v \in { GivenShift } : v = v } :
             \E stated \in
                   { v \in { VAdd(EffectiveOffset(M, GivenTranslation, o),
                                  Apply(M, shift)) } : v = v } :
                /\ native_calls[1].origin = stated
                /\ \A idx \in Indices(Result.shape) :
                      Mapped(M, idx, stated) = Coordinate(M, idx, shift, o)

\* C13, amended: the offset vector that was handed to the native routine
\* equals b + invL*u, with b = invL*(-translation - origin) + origin, and
\* invL*idx + (b + invL*u) equals invL*(idx + u - translation - origin)
\* + origin for every output index.
C13_OffsetFromEffectiveOffset ==
    (Returned /\ IsSquare)
        => \E M \in { m \in { InvL } : m.data = m.data },
              o \in { v \in { GivenOrigin } : v = v },
              shift \in { v \in { GivenShift } : v = v } :
             \E amended \in
                   { v \in { VAdd(EffectiveOffset(M, GivenTranslation, o),
                                  Apply(M, GivenOutputOrigin)) } : v = v } :
                /\ native_calls[1].origin = amended
                /\ \A idx \in Indices(Result.shape) :
                      Mapped(M, idx, amended) = Coordinate(M, idx, shift, o)

C13_Witness ==
    /\ Returned
    /\ call.linear_transformation = Scale(2)
    /\ call.origin = Some(<< R(1), R(1) >>)
    /\ GivenTranslation = << Rat(2, 3), R(0) >>
    /\ call.output_image_origin = Some(<< Rat(1, 2), R(0) >>)
    /\ EffectiveOffset(InvL, GivenTranslation, GivenOrigin) = << Rat(1, 6), R(0) >>
    /\ native_calls[1].origin = << Rat(5, 12), R(0) >>

(***************************************************************************)
(* The caller's argument objects.  transform() rebinds its local names     *)
(* origin and linear_transformation to new arrays and only reads           *)
(* output_image_origin; the buffers it can write are the translation array *)
(* (when np.asarray returns it as it is) and, through the native routine,  *)
(* the image buffers.                                                      *)
(***************************************************************************)
\* C14: at every point of a call, and so after it, whether it returns or
\* raises, the caller's translation holds the value it held at the call,
\* and so does the caller's input image unless it was passed as
\* output_image as well.
C14_ArgumentsUnchanged ==
    /\ caller_translation = call.translation.val
    /\ ~ call.output_is_input => input_image = call.input_image

=============================================================================
